---------------------------- MODULE Spec2Model ----------------------------
(***************************************************************************)
(* Key-value persistence layer of the Telegram assistant bot.              *)
(*                                                                         *)
(* The repository holds three drafts of the storage layer:                 *)
(*   core   tgbot/core/database.py (BaseDatabase + SQLite) handed out by   *)
(*          tgbot/core/__init__.py get_database;                           *)
(*   legacy tgbot/core/_database.py (BotDB factory);                       *)
(*   utils  utils/database.py (MongoDB wrapper bound to BotDB).            *)
(*                                                                         *)
(* Python control flow and data flow are modelled as written.  One driver  *)
(* call (connect, cursor.execute, collection.update_one, ...) is one       *)
(* atomic step that either has the effect its statement names on the       *)
(* key-value table or raises the driver's error class; which of the two    *)
(* happens is left open.                                                   *)
(*                                                                         *)
(* A Python str is a sequence of one-character strings, so conversions     *)
(* between text and values are computed, not assumed.  A Python value is   *)
(* a record of one shape:                                                  *)
(*   t  the type tag, n/e  number payload, s  text payload, l  items.      *)
(***************************************************************************)
EXTENDS Integers, Sequences, FiniteSets, TLC

-----------------------------------------------------------------------------
(* Python values *)

PyNone == [t |-> "none", n |-> 0, e |-> 0, s |-> <<>>, l |-> <<>>]

PyBool(b) == [t |-> "bool", n |-> IF b THEN 1 ELSE 0, e |-> 0, s |-> <<>>, l |-> <<>>]

PyInt(i) == [t |-> "int", n |-> i, e |-> 0, s |-> <<>>, l |-> <<>>]

\* a float with mantissa m and e fractional digits: m / 10^e
PyFloat(m, e) == [t |-> "float", n |-> m, e |-> e, s |-> <<>>, l |-> <<>>]

PyStr(s) == [t |-> "str", n |-> 0, e |-> 0, s |-> s, l |-> <<>>]

PyList(l) == [t |-> "list", n |-> 0, e |-> 0, s |-> <<>>, l |-> l]

\* the constant ... that ast.literal_eval lets through
PyEllipsis == [t |-> "ellipsis", n |-> 0, e |-> 0, s |-> <<>>, l |-> <<>>]

IsStr(v) == v.t = "str"

-----------------------------------------------------------------------------
(* Text helpers *)

Digits == <<"0", "1", "2", "3", "4", "5", "6", "7", "8", "9">>

IsDigit(c) == \E i \in 1..10 : Digits[i] = c

DigitVal(c) == (CHOOSE i \in 1..10 : Digits[i] = c) - 1

IsSpace(c) == c = " "

RECURSIVE DropLeft(_, _)
DropLeft(s, c) == IF s # <<>> /\ Head(s) = c THEN DropLeft(Tail(s), c) ELSE s

RECURSIVE DropRight(_, _)
DropRight(s, c) ==
    IF s # <<>> /\ s[Len(s)] = c THEN DropRight(SubSeq(s, 1, Len(s) - 1), c) ELSE s

\* str.strip()
Strip(s) == DropRight(DropLeft(s, " "), " ")

AllDigits(s) == s # <<>> /\ \A i \in 1..Len(s) : IsDigit(s[i])

RECURSIVE DigitsToNat(_)
DigitsToNat(s) ==
    IF s = <<>> THEN 0
    ELSE 10 * DigitsToNat(SubSeq(s, 1, Len(s) - 1)) + DigitVal(s[Len(s)])

RECURSIVE NatToDigits(_)
NatToDigits(i) ==
    IF i < 10 THEN <<Digits[i + 1]>>
    ELSE NatToDigits(i \div 10) \o <<Digits[(i % 10) + 1]>>

IntToText(i) == IF i < 0 THEN <<"-">> \o NatToDigits(-i) ELSE NatToDigits(i)

\* the index of the first position >= i of s that holds no digit
RECURSIVE DigitsEnd(_, _)
DigitsEnd(s, i) == IF i <= Len(s) /\ IsDigit(s[i]) THEN DigitsEnd(s, i + 1) ELSE i

RECURSIVE SkipSpaces(_, _)
SkipSpaces(s, i) == IF i <= Len(s) /\ IsSpace(s[i]) THEN SkipSpaces(s, i + 1) ELSE i

\* whether word w stands in s at position i
StartsAt(s, i, w) == i + Len(w) - 1 <= Len(s) /\ SubSeq(s, i, i + Len(w) - 1) = w

\* the index of the first position >= i of s that holds c, or 0
RECURSIVE Find(_, _, _)
Find(s, i, c) == IF i > Len(s) THEN 0 ELSE IF s[i] = c THEN i ELSE Find(s, i + 1, c)


-----------------------------------------------------------------------------
(* json.loads and ast.literal_eval on the grammar the model's texts use:     *)
(* keywords, integers, decimals, quoted strings with \" \\ \' escapes and    *)
(* lists.  d is the dialect: "json" or "py".                                 *)

ParseFail == [ok |-> FALSE, v |-> PyNone, nx |-> 0]

ParseOk(v, nx) == [ok |-> TRUE, v |-> v, nx |-> nx]

Pow10(k) == CASE k = 0 -> 1 [] k = 1 -> 10 [] k = 2 -> 100 [] k = 3 -> 1000 [] OTHER -> 10000

Signed(neg, m) == IF neg THEN -m ELSE m

\* the number an integer part ip and a fraction f without trailing zeros
\* denote; -0.0 = 0.0
MakeFloat1(neg, ip, f) == PyFloat(Signed(neg, DigitsToNat(ip \o f)), Len(f))

MakeFloat(neg, ip, fr) == MakeFloat1(neg, ip, DropRight(fr, "0"))

ZeroLed(ip) == Len(ip) > 1 /\ ip[1] = "0"

\* an integer literal ip that ends before position k
NumWhole(d, neg, ip, k) ==
    IF ZeroLed(ip) /\ (d = "json" \/ DigitsToNat(ip) # 0) THEN ParseFail
    ELSE ParseOk(PyInt(Signed(neg, DigitsToNat(ip))), k)

\* a literal with integer part ip and fraction fr that ends before position m
NumFrac(d, neg, ip, fr, m) ==
    IF d = "json" /\ (fr = <<>> \/ ZeroLed(ip)) THEN ParseFail
    ELSE ParseOk(MakeFloat(neg, ip, fr), m)

NumFracAt(s, d, neg, ip, k, m) == NumFrac(d, neg, ip, SubSeq(s, k + 1, m - 1), m)

\* digits from position j to before position k
NumDigits(s, d, neg, j, k) ==
    IF k = j
    THEN IF d = "py" /\ k <= Len(s) /\ s[k] = "." /\ DigitsEnd(s, k + 1) > k + 1
         THEN NumFracAt(s, d, neg, <<>>, k, DigitsEnd(s, k + 1))
         ELSE ParseFail
    ELSE IF k <= Len(s) /\ s[k] = "."
         THEN NumFracAt(s, d, neg, SubSeq(s, j, k - 1), k, DigitsEnd(s, k + 1))
         ELSE NumWhole(d, neg, SubSeq(s, j, k - 1), k)

NumSigned(s, d, neg, j) == NumDigits(s, d, neg, j, DigitsEnd(s, j))

\* JSON: -?(0|[1-9][0-9]*)(\.[0-9]+)?   Python: -?([0-9]+(\.[0-9]*)?|\.[0-9]+)
\* with no leading zero on a non-zero integer literal; Python takes spaces
\* between the sign and the number
ParseNumber(s, i, d) ==
    IF i <= Len(s) /\ s[i] = "-"
    THEN NumSigned(s, d, TRUE, IF d = "py" THEN SkipSpaces(s, i + 1) ELSE i + 1)
    ELSE NumSigned(s, d, FALSE, i)

\* the text of a string literal opened with quote q before position i
RECURSIVE ScanStr(_, _, _, _, _)
ScanStr(s, i, q, d, acc) ==
    IF i > Len(s) THEN ParseFail
    ELSE IF s[i] = q THEN ParseOk(PyStr(acc), i + 1)
    ELSE IF s[i] = "\\"
         THEN IF i + 1 <= Len(s)
                 /\ (s[i + 1] = "\"" \/ s[i + 1] = "\\" \/ (d = "py" /\ s[i + 1] = "'"))
              THEN ScanStr(s, i + 2, q, d, acc \o <<s[i + 1]>>)
              ELSE ParseFail
         ELSE ScanStr(s, i + 1, q, d, acc \o <<s[i]>>)

RECURSIVE ParseValue(_, _, _)
RECURSIVE ParseItems(_, _, _, _)
\* after "[" and spaces, at position j
ListFrom(s, j, d) ==
    IF j <= Len(s) /\ s[j] = "]" THEN ParseOk(PyList(<<>>), j + 1)
    ELSE ParseItems(s, j, d, <<>>)

ParseValue(s, i, d) ==
    IF i > Len(s) THEN ParseFail
    ELSE IF d = "json" /\ StartsAt(s, i, <<"t", "r", "u", "e">>) THEN ParseOk(PyBool(TRUE), i + 4)
    ELSE IF d = "json" /\ StartsAt(s, i, <<"f", "a", "l", "s", "e">>) THEN ParseOk(PyBool(FALSE), i + 5)
    ELSE IF d = "json" /\ StartsAt(s, i, <<"n", "u", "l", "l">>) THEN ParseOk(PyNone, i + 4)
    ELSE IF d = "py" /\ StartsAt(s, i, <<"T", "r", "u", "e">>) THEN ParseOk(PyBool(TRUE), i + 4)
    ELSE IF d = "py" /\ StartsAt(s, i, <<"F", "a", "l", "s", "e">>) THEN ParseOk(PyBool(FALSE), i + 5)
    ELSE IF d = "py" /\ StartsAt(s, i, <<"N", "o", "n", "e">>) THEN ParseOk(PyNone, i + 4)
    ELSE IF d = "py" /\ StartsAt(s, i, <<".", ".", ".">>) THEN ParseOk(PyEllipsis, i + 3)
    ELSE IF s[i] = "\"" \/ (d = "py" /\ s[i] = "'") THEN ScanStr(s, i + 1, s[i], d, <<>>)
    ELSE IF s[i] = "["
         THEN ListFrom(s, SkipSpaces(s, i + 1), d)
    ELSE ParseNumber(s, i, d)

\* after an item r.v and a comma, at position m
AfterComma(s, m, d, acc) ==
    IF d = "py" /\ m <= Len(s) /\ s[m] = "]" THEN ParseOk(PyList(acc), m + 1)
    ELSE ParseItems(s, m, d, acc)

\* after an item, at position k
AfterItem(s, k, d, acc) ==
    IF k > Len(s) THEN ParseFail
    ELSE IF s[k] = "]" THEN ParseOk(PyList(acc), k + 1)
    ELSE IF s[k] # "," THEN ParseFail
    ELSE AfterComma(s, SkipSpaces(s, k + 1), d, acc)

ItemParsed(s, r, d, acc) ==
    IF ~r.ok THEN ParseFail ELSE AfterItem(s, SkipSpaces(s, r.nx), d, acc \o <<r.v>>)

ParseItems(s, j, d, acc) == ItemParsed(s, ParseValue(s, j, d), d, acc)

\* the whole text is one literal
WholeText(s, r) == IF r.ok /\ r.nx = Len(s) + 1 THEN r ELSE ParseFail

ParseAll(s, d) == WholeText(s, ParseValue(s, 1, d))

\* float(text) for the texts that reach it: digits with an optional fraction
\* or a leading dot
FloatParts(s, neg, ip, fr, m) ==
    IF m = Len(s) + 1 /\ (ip \o fr) # <<>> THEN ParseOk(MakeFloat(neg, ip, fr), m)
    ELSE ParseFail

FloatDigits(s, neg, j, k) ==
    IF k <= Len(s) /\ s[k] = "."
    THEN FloatParts(s, neg, SubSeq(s, j, k - 1),
                    SubSeq(s, k + 1, DigitsEnd(s, k + 1) - 1), DigitsEnd(s, k + 1))
    ELSE FloatParts(s, neg, SubSeq(s, j, k - 1), <<>>, k)

ParseFloat(s) ==
    IF s # <<>> /\ s[1] = "-" THEN FloatDigits(s, TRUE, 2, DigitsEnd(s, 2))
    ELSE FloatDigits(s, FALSE, 1, DigitsEnd(s, 1))

\* int(text): optional sign, then digits (leading zeros allowed)
IntDigits(s, neg, ds) ==
    IF AllDigits(ds) THEN ParseOk(PyInt(Signed(neg, DigitsToNat(ds))), Len(s) + 1)
    ELSE ParseFail

ParseInt(s) ==
    IF s # <<>> /\ s[1] = "-" THEN IntDigits(s, TRUE, Tail(s)) ELSE IntDigits(s, FALSE, s)

\* the third attempt: int(value) if value.lstrip("-").isdigit() else float(value)
ParsePlainNumber(s) == IF AllDigits(DropLeft(s, "-")) THEN ParseInt(s) ELSE ParseFloat(s)

\* the attempts without json.loads
FirstOk_NoJson(j, p, n, s) ==
    IF p.ok THEN p.v ELSE IF n.ok THEN n.v ELSE PyStr(s)

FirstOk(j, p, n, s) ==
    IF j.ok THEN j.v ELSE IF p.ok THEN p.v ELSE IF n.ok THEN n.v ELSE PyStr(s)

Converted(s) == FirstOk(ParseAll(s, "json"), ParseAll(s, "py"), ParsePlainNumber(s), s)

safe_convert(value) == Converted(Strip(value))

\* isinstance(x, str) guard in front of safe_convert
ConvertIfStr(x) == IF IsStr(x) THEN safe_convert(x.s) ELSE x

-----------------------------------------------------------------------------
(* json.dumps *)

RECURSIVE Escape(_)
Escape(s) ==
    IF s = <<>> THEN <<>>
    ELSE (IF Head(s) = "\"" \/ Head(s) = "\\" THEN <<"\\", Head(s)>> ELSE <<Head(s)>>)
         \o Escape(Tail(s))

RECURSIVE PadLeft(_, _)
PadLeft(s, k) == IF Len(s) >= k THEN s ELSE PadLeft(<<"0">> \o s, k)

UnsignedFloatText(a, e) ==
    NatToDigits(a \div Pow10(e)) \o <<".">>
    \o (IF e = 0 THEN <<"0">> ELSE PadLeft(NatToDigits(a % Pow10(e)), e))

FloatToText(m, e) ==
    IF m < 0 THEN <<"-">> \o UnsignedFloatText(-m, e) ELSE UnsignedFloatText(m, e)

RECURSIVE json_dumps(_)
RECURSIVE DumpItems(_)
json_dumps(v) ==
    CASE v.t = "none"  -> <<"n", "u", "l", "l">>
      [] v.t = "bool"  -> IF v.n = 1 THEN <<"t", "r", "u", "e">> ELSE <<"f", "a", "l", "s", "e">>
      [] v.t = "int"   -> IntToText(v.n)
      [] v.t = "float" -> FloatToText(v.n, v.e)
      [] v.t = "str"   -> <<"\"">> \o Escape(v.s) \o <<"\"">>
      [] OTHER         -> <<"[">> \o DumpItems(v.l) \o <<"]">>

DumpItems(l) ==
    IF l = <<>> THEN <<>>
    ELSE IF Len(l) = 1 THEN json_dumps(l[1])
    ELSE json_dumps(l[1]) \o <<",", " ">> \o DumpItems(Tail(l))

-----------------------------------------------------------------------------
(* Finite maps: a dict, a table *)

EmptyMap == [x \in {} |-> PyNone]

Put(m, k, v) == [x \in (DOMAIN m) \cup {k} |-> IF x = k THEN v ELSE m[x]]

Del(m, k) == [x \in (DOMAIN m) \ {k} |-> m[x]]

\* the orders in which the rows of a table may come back
Orders(S) == {f \in [1..Cardinality(S) -> S] : \A i, j \in 1..Cardinality(S) : f[i] = f[j] => i = j}

-----------------------------------------------------------------------------
(* Inputs *)

\* how many elements the list value handed to set holds
MaxListLen == 2

TxtAB == <<"a", "b">>

Txt7 == <<"7">>

Txt42 == <<"4", "2">>

TxtQuoted42 == <<"\"", "4", "2", "\"">>

Txt5 == <<"5">>

\* keys callers pass: "ab" stays a string, "7" is converted to the integer 7
Keys == {PyStr(TxtAB), PyStr(Txt7)}

\* values callers pass: a list, a string that converts to the integer 42 and
\* a string that converts to the string "42"
Values == {PyList([i \in 1..MaxListLen |-> PyInt(i)]), PyStr(Txt42), PyStr(TxtQuoted42)}

Defaults == {PyNone, PyInt(0)}

\* what another process writes into the table: a key column and a JSON text
ExternalKeys == {TxtAB, Txt7}

ExternalTexts == {Txt5}

VARIABLES
    draft,      \* which draft of the storage layer the process runs
    env,        \* which connection strings the environment configures
    proc,       \* "boot", "running" or "exited"
    driver,     \* the driver module the storage module imported
    selected,   \* the backend class the start-up code instantiated
    conn,       \* "open", "closed", "none", or "unassigned" (no collection attribute)
    cache,      \* BaseDatabase.cache: converted key -> value
    backend,    \* the SQLite table: key column text -> value column text
    collection, \* the MongoDB collection of utils/database.py: _id -> value
    last,       \* the most recent call: its arguments and its outcome
    tc,         \* TempCache.cache: key -> value
    tlast,      \* the most recent call on the TempCache, with the cache before it
    tasks,      \* the handler coroutines in flight: task -> position and arguments
    convo,      \* TelegramApplication: _convo, _msg_handler and the conversations entered
    msg,        \* the message handler on_message registered and the update it last saw
    ex,         \* the most recent run of the exec command
    conv,       \* the most recent safe_convert call: its text and what it returned
    app         \* TelegramApplication: configuration, the handler registered last,
                \* the update handled last

vars == <<draft, env, proc, driver, selected, conn, cache, backend, collection, last,
          tc, tlast, tasks, app, conv, convo, ex, msg>>

\* the state of the database layer
dbvars == <<draft, env, proc, driver, selected, conn, cache, backend, collection, last>>

\* the state of the TempCache
tcvars == <<tc, tlast>>

\* the state of the handlers and of the application
appvars == <<tasks, app>>

\* the state of the modules and helpers around them
modvars == <<conv, convo, ex, msg>>

NoCall == [op |-> "none", key |-> PyNone, val |-> PyNone, dflt |-> PyNone, mem |-> FALSE,
           out |-> "ok", ret |-> PyNone, hit |-> FALSE,
           prev |-> [op |-> "other", key |-> PyNone, val |-> PyNone, out |-> "ok"]]

\* what a get keeps of the call right before it: a set or pop of the same key
\* with its arguments, a refresh, or "other"
Before(l, k) ==
    IF l.op \in {"set", "pop"} /\ l.key = k
    THEN [op |-> l.op, key |-> l.key, val |-> l.val, out |-> l.out]
    ELSE IF l.op = "refresh" THEN [op |-> "refresh", key |-> PyNone, val |-> PyNone, out |-> l.out]
    ELSE [op |-> "other", key |-> PyNone, val |-> PyNone, out |-> "ok"]

-----------------------------------------------------------------------------
(* tgbot/core/database.py: SQLite *)

\* the text a key parameter takes in the TEXT key column
ColText(key) == IF key.t = "str" THEN key.s ELSE IntToText(key.n)

\* execute INSERT ... ON CONFLICT(key) DO UPDATE with (key, json_value)
Upsert(b, k, json_value, fail) ==
    IF fail THEN [backend |-> b, out |-> "DatabaseError"]
    ELSE [backend |-> Put(b, ColText(k), json_value), out |-> "ok"]

SQLite_insertone(b, key, value, fail) ==
    Upsert(b, ConvertIfStr(key), json_dumps(ConvertIfStr(value)), fail)

\* fetchone that drops the caller's default
SelectRow_NoDefault(b, kt, default, fail) ==
    IF fail THEN [ret |-> PyNone, out |-> "DatabaseError"]
    ELSE IF kt \in DOMAIN b THEN [ret |-> safe_convert(b[kt]), out |-> "ok"]
    ELSE [ret |-> PyNone, out |-> "ok"]

\* execute SELECT value ... WHERE key=?, then cursor.fetchone()
SelectRow(b, kt, default, fail) ==
    IF fail THEN [ret |-> PyNone, out |-> "DatabaseError"]
    ELSE IF kt \in DOMAIN b THEN [ret |-> safe_convert(b[kt]), out |-> "ok"]
    ELSE [ret |-> default, out |-> "ok"]

SQLite_fetchone(b, key, default, fail) == SelectRow(b, ColText(ConvertIfStr(key)), default, fail)

\* execute DELETE ... WHERE key=? with no handler around it: the driver's
\* error leaves as it is
DeleteRow(b, kt, fail) ==
    IF fail THEN [backend |-> b, out |-> "sqlite3.Error"]
    ELSE [backend |-> Del(b, kt), out |-> "ok"]

SQLite_deleteone(b, key, fail) == DeleteRow(b, ColText(ConvertIfStr(key)), fail)

\* pattern "*": dict(rows), the key column mapped to the value column
SQLite_fetchall(b, fail) ==
    IF fail THEN [rows |-> EmptyMap, out |-> "DatabaseError"]
    ELSE [rows |-> b, out |-> "ok"]

-----------------------------------------------------------------------------
(* tgbot/core/database.py: BaseDatabase *)

\* self.insertone(key, value); return
SetWritten(c1, w) == [cache |-> c1, backend |-> w.backend, out |-> w.out, ret |-> PyNone]

\* set that leaves the cache as it was
SetConverted_SkipCache(c, b, k, v, in_memory, fail) ==
    IF in_memory THEN [cache |-> c, backend |-> b, out |-> "ok", ret |-> PyNone]
    ELSE SetWritten(c, SQLite_insertone(b, k, v, fail))

\* set that ignores in_memory
SetConverted_AlwaysPersist(c, b, k, v, in_memory, fail) ==
    SetWritten(Put(c, k, v), SQLite_insertone(b, k, v, fail))

\* self.cache[key] = value; if in_memory: return
SetConverted(c, b, k, v, in_memory, fail) ==
    IF in_memory THEN [cache |-> Put(c, k, v), backend |-> b, out |-> "ok", ret |-> PyNone]
    ELSE SetWritten(Put(c, k, v), SQLite_insertone(b, k, v, fail))

\* set that does not replace an entry the cache already holds
BaseDatabase_set_KeepFirst(c, b, key, value, in_memory, fail) ==
    IF ConvertIfStr(key) \in DOMAIN c
    THEN SetWritten(c, SQLite_insertone(b, key, value, fail))
    ELSE SetConverted(c, b, ConvertIfStr(key), ConvertIfStr(value), in_memory, fail)

BaseDatabase_set(c, b, key, value, in_memory, fail) ==
    SetConverted(c, b, ConvertIfStr(key), ConvertIfStr(value), in_memory, fail)

\* value = self.fetchone(key, default); self.cache[key] = value; return value
GetFetched(c, k, f) ==
    IF f.out # "ok" THEN [cache |-> c, out |-> f.out, ret |-> PyNone, hit |-> FALSE]
    ELSE [cache |-> Put(c, k, f.ret), out |-> "ok", ret |-> f.ret, hit |-> FALSE]

\* get that reads the backend even when the key is cached
GetConverted_AlwaysFetch(c, b, k, default, fail) ==
    GetFetched(c, k, SQLite_fetchone(b, k, default, fail))

\* if key in self.cache: return self.cache[key]
GetConverted(c, b, k, default, fail) ==
    IF k \in DOMAIN c THEN [cache |-> c, out |-> "ok", ret |-> c[k], hit |-> TRUE]
    ELSE GetFetched(c, k, SQLite_fetchone(b, k, default, fail))

BaseDatabase_get(c, b, key, default, fail) ==
    GetConverted(c, b, ConvertIfStr(key), default, fail)

\* pop that keeps the cache entry
PopConverted_KeepCache(c, k, d) ==
    [cache |-> c, backend |-> d.backend, out |-> d.out, ret |-> PyNone]

\* if key in self.cache: del self.cache[key]; self.deleteone(key)
PopConverted(c, k, d) == [cache |-> Del(c, k), backend |-> d.backend, out |-> d.out, ret |-> PyNone]

BaseDatabase_pop(c, b, key, fail) ==
    PopConverted(c, ConvertIfStr(key), SQLite_deleteone(b, ConvertIfStr(key), fail))

\* "for key, value in <dict>": the loop walks the dict's keys and unpacks each
\* key text into two names; a text of any other length raises ValueError
RECURSIVE RefreshLoop(_, _, _)
RefreshLoop(c, order, i) ==
    IF i > Len(order) THEN [cache |-> c, out |-> "ok"]
    ELSE IF Len(order[i]) # 2 THEN [cache |-> c, out |-> "ValueError"]
    ELSE RefreshLoop(Put(c, PyStr(<<order[i][1]>>), PyStr(<<order[i][2]>>)), order, i + 1)

\* self.cache.clear(), then the loop over self.fetchall(pattern="*"), whose
\* rows come in the order given
RefreshFetched(f, order) ==
    IF f.out # "ok" THEN [cache |-> EmptyMap, out |-> f.out]
    ELSE RefreshLoop(EmptyMap, order, 1)

BaseDatabase_refresh(c, b, order, fail) == RefreshFetched(SQLite_fetchall(b, fail), order)

-----------------------------------------------------------------------------
(* utils/database.py: MongoDB.  A PyMongoError is caught in each method and *)
(* returned as a pair whose second item is the error text: out = "tagged". *)

\* set that lets the driver's error through
MongoDB_set_Raises(col, key, value, fail) ==
    IF fail THEN [collection |-> col, out |-> "PyMongoError", ret |-> PyNone]
    ELSE [collection |-> Put(col, key, value), out |-> "ok", ret |-> PyBool(TRUE)]

MongoDB_set(col, key, value, fail) ==
    IF fail THEN [collection |-> col, out |-> "tagged", ret |-> PyBool(FALSE)]
    ELSE [collection |-> Put(col, key, value), out |-> "ok", ret |-> PyBool(TRUE)]

MongoDB_get(col, key, fail) ==
    IF fail THEN [collection |-> col, out |-> "tagged", ret |-> PyNone]
    ELSE [collection |-> col, out |-> "ok", ret |-> IF key \in DOMAIN col THEN col[key] ELSE PyNone]

MongoDB_delete(col, key, fail) ==
    IF fail THEN [collection |-> col, out |-> "tagged", ret |-> PyBool(FALSE)]
    ELSE [collection |-> Del(col, key), out |-> "ok", ret |-> PyBool(key \in DOMAIN col)]

\* the list of the _id fields, in the order the server returns them
MongoDB_keys(col, fail) ==
    IF fail THEN [collection |-> col, out |-> "tagged", ret |-> PyList(<<>>)]
    ELSE [collection |-> col, out |-> "ok", ret |-> PyList(CHOOSE f \in Orders(DOMAIN col) : TRUE)]

\* a method called on an instance whose __init__ failed before self.collection
\* was assigned: the attribute lookup raises, outside the method's handler
Unassigned(col) == [collection |-> col, out |-> "AttributeError", ret |-> PyNone]

-----------------------------------------------------------------------------
(* Start-up: which backend the process ends up on *)

Drafts == {"core", "legacy", "utils"}

Envs == [MONGO_URI : BOOLEAN, DATABASE_URL : BOOLEAN]

\* tgbot/core/database.py, module level: DATABASE_URL is tested first
CoreDriver(e) ==
    IF e.DATABASE_URL THEN "psycopg2" ELSE IF e.MONGO_URI THEN "pymongo" ELSE "sqlite3"

\* tgbot/core/__init__.py: the instance is a SQLite whatever the environment
get_database(e) == "SQLite"

\* tgbot/core/_database.py, module level: MONGO_URI is tested first
LegacyDriver(e) ==
    IF e.MONGO_URI THEN "pymongo" ELSE IF e.DATABASE_URL THEN "psycopg2" ELSE "sqlite3"

\* tgbot/core/_database.py BotDB: the class follows the imported driver
BotDB(d) ==
    IF d = "pymongo" THEN "MongoDB" ELSE IF d = "psycopg2" THEN "PostgreSQL" ELSE "SQLite"

\* SQLite() calls sqlite3.connect: with another driver imported the name
\* sqlite3 is None and the construction raises; a failed connect raises
\* DatabaseError; nothing catches either, the import of tgbot fails
StartCore(connectOk) ==
    /\ proc = "boot" /\ draft = "core"
    /\ driver' = CoreDriver(env)
    /\ selected' = get_database(env)
    /\ IF driver' = "sqlite3" /\ connectOk
       THEN conn' = "open" /\ proc' = "running"
       ELSE conn' = "none" /\ proc' = "exited"
    /\ UNCHANGED <<tcvars, appvars, modvars>>
    /\ UNCHANGED <<draft, env, cache, backend, collection, last>>

\* BotDB: any exception of the constructor, SystemExit of PostgreSQL.__init__
\* included, is logged and followed by exit()
StartLegacy(connectOk) ==
    /\ proc = "boot" /\ draft = "legacy"
    /\ driver' = LegacyDriver(env)
    /\ selected' = BotDB(driver')
    /\ IF connectOk
       THEN conn' = "open" /\ proc' = "running"
       ELSE conn' = "none" /\ proc' = "exited"
    /\ UNCHANGED <<tcvars, appvars, modvars>>
    /\ UNCHANGED <<draft, env, cache, backend, collection, last>>

\* how the connection attempt of MongoDB.__init__ ends: all statements run;
\* create_index times out on an unreachable server (client, db and collection
\* are assigned by then); MongoClient rejects the URI (nothing is assigned)
Connects == {"ok", "unreachable", "invalid_uri"}

\* utils/database.py: BotDB = MongoDB(var.MONGO_URI); __init__ catches the
\* connection error, logs it, sets client to None and returns
StartUtils(connect) ==
    /\ proc = "boot" /\ draft = "utils"
    /\ driver' = "pymongo"
    /\ selected' = "MongoDB"
    /\ conn' = IF connect = "ok" THEN "open"
               ELSE IF connect = "unreachable" THEN "none" ELSE "unassigned"
    /\ proc' = "running"
    /\ UNCHANGED <<tcvars, appvars, modvars>>
    /\ UNCHANGED <<draft, env, cache, backend, collection, last>>

-----------------------------------------------------------------------------
(* Calls on the running process *)

CoreRunning == proc = "running" /\ draft = "core"

\* a statement executed on a closed connection raises sqlite3.ProgrammingError,
\* a sqlite3.Error like any other failure of the driver
DriverFails(fail) == fail \/ conn = "closed"

UtilsRunning == proc = "running" /\ draft = "utils"

SetDone(k, v, m, r) ==
    /\ cache' = r.cache
    /\ backend' = r.backend
    /\ last' = [NoCall EXCEPT !.op = "set", !.key = k, !.val = v, !.mem = m, !.out = r.out]

Set(k, v, m, fail) ==
    /\ CoreRunning
    /\ SetDone(k, v, m, BaseDatabase_set(cache, backend, k, v, m, DriverFails(fail)))
    /\ UNCHANGED <<tcvars, appvars, modvars>>
    /\ UNCHANGED <<draft, env, proc, driver, selected, conn, collection>>

GetDone(k, d, r) ==
    /\ cache' = r.cache
    /\ last' = [NoCall EXCEPT !.op = "get", !.key = k, !.dflt = d, !.out = r.out,
                              !.ret = r.ret, !.hit = r.hit, !.prev = Before(last, k)]

Get(k, d, fail) ==
    /\ CoreRunning
    /\ GetDone(k, d, BaseDatabase_get(cache, backend, k, d, DriverFails(fail)))
    /\ UNCHANGED <<tcvars, appvars, modvars>>
    /\ UNCHANGED <<draft, env, proc, driver, selected, conn, backend, collection>>

PopDone(k, r) ==
    /\ cache' = r.cache
    /\ backend' = r.backend
    /\ last' = [NoCall EXCEPT !.op = "pop", !.key = k, !.out = r.out]

Pop(k, fail) ==
    /\ CoreRunning
    /\ PopDone(k, BaseDatabase_pop(cache, backend, k, DriverFails(fail)))
    /\ UNCHANGED <<tcvars, appvars, modvars>>
    /\ UNCHANGED <<draft, env, proc, driver, selected, conn, collection>>

RefreshDone(r) ==
    /\ cache' = r.cache
    /\ last' = [NoCall EXCEPT !.op = "refresh", !.out = r.out]

Refresh(order, fail) ==
    /\ CoreRunning
    /\ RefreshDone(BaseDatabase_refresh(cache, backend, order, DriverFails(fail)))
    /\ UNCHANGED <<tcvars, appvars, modvars>>
    /\ UNCHANGED <<draft, env, proc, driver, selected, conn, backend, collection>>

\* SQLite.close: self.conn.close(); the cache and the instance stay as they are
Close ==
    /\ CoreRunning
    /\ conn = "open"
    /\ conn' = "closed"
    /\ last' = [NoCall EXCEPT !.op = "close"]
    /\ UNCHANGED <<tcvars, appvars, modvars>>
    /\ UNCHANGED <<draft, env, proc, driver, selected, cache, backend, collection>>

\* another process, or a manual edit, writes a row of the table directly
ExternalWrite(kt, text) ==
    /\ CoreRunning
    /\ backend' = Put(backend, kt, text)
    /\ last' = [NoCall EXCEPT !.op = "external", !.key = PyStr(kt), !.val = PyStr(text)]
    /\ UNCHANGED <<tcvars, appvars, modvars>>
    /\ UNCHANGED <<draft, env, proc, driver, selected, conn, cache, collection>>

\* on an unreachable server every call of the driver fails
MongoFails(fail) == fail \/ conn = "none"

\* the outcome r of a method, or AttributeError when self.collection is missing
OnCollection(r) == IF conn = "unassigned" THEN Unassigned(collection) ELSE r

MongoDone(op, k, v, r) ==
    /\ collection' = r.collection
    /\ last' = [NoCall EXCEPT !.op = op, !.key = k, !.val = v, !.out = r.out, !.ret = r.ret]

MongoSet(k, v, fail) ==
    /\ UtilsRunning
    /\ MongoDone("mongo_set", k, v, OnCollection(MongoDB_set(collection, k, v, MongoFails(fail))))
    /\ UNCHANGED <<tcvars, appvars, modvars>>
    /\ UNCHANGED <<draft, env, proc, driver, selected, conn, cache, backend>>

MongoGet(k, fail) ==
    /\ UtilsRunning
    /\ MongoDone("mongo_get", k, PyNone, OnCollection(MongoDB_get(collection, k, MongoFails(fail))))
    /\ UNCHANGED <<tcvars, appvars, modvars>>
    /\ UNCHANGED <<draft, env, proc, driver, selected, conn, cache, backend>>

MongoDelete(k, fail) ==
    /\ UtilsRunning
    /\ MongoDone("mongo_delete", k, PyNone, OnCollection(MongoDB_delete(collection, k, MongoFails(fail))))
    /\ UNCHANGED <<tcvars, appvars, modvars>>
    /\ UNCHANGED <<draft, env, proc, driver, selected, conn, cache, backend>>

MongoKeys(fail) ==
    /\ UtilsRunning
    /\ MongoDone("mongo_keys", PyNone, PyNone, OnCollection(MongoDB_keys(collection, MongoFails(fail))))
    /\ UNCHANGED <<tcvars, appvars, modvars>>
    /\ UNCHANGED <<draft, env, proc, driver, selected, conn, cache, backend>>

-----------------------------------------------------------------------------
(* tgbot/utils/helpers.py: TempCache.  A dict value is the sequence of its  *)
(* items in insertion order.                                                *)

PyPair(k, v) == [t |-> "pair", n |-> 0, e |-> 0, s |-> <<>>, l |-> <<k, v>>]

PyDict(items) == [t |-> "dict", n |-> 0, e |-> 0, s |-> <<>>, l |-> items]

IsList(v) == v.t = "list"

IsDict(v) == v.t = "dict"

\* x in l, for a list l
InList(x, l) == \E i \in 1..Len(l) : l[i] = x

\* the position of sub_key among the items of a dict, 0 when it is no key
RECURSIVE ItemAt(_, _, _)
ItemAt(items, sub_key, i) ==
    IF i > Len(items) THEN 0
    ELSE IF items[i].l[1] = sub_key THEN i
    ELSE ItemAt(items, sub_key, i + 1)

HasItem(items, sub_key) == ItemAt(items, sub_key, 1) # 0

ItemValue(items, sub_key) == items[ItemAt(items, sub_key, 1)].l[2]

\* extend that tests every element against the list as it was
ExtendNovel_Snapshot(l, value, i) == l \o SelectSeq(value, LAMBDA x : ~InList(x, l))

\* l.extend(x for x in value if x not in l): the generator is consumed while
\* the list grows, so each test sees the elements appended before it
RECURSIVE ExtendNovel(_, _, _)
ExtendNovel(l, value, i) ==
    IF i > Len(value) THEN l
    ELSE IF InList(value[i], l) THEN ExtendNovel(l, value, i + 1)
    ELSE ExtendNovel(Append(l, value[i]), value, i + 1)

\* l.remove(value): the first occurrence goes
RECURSIVE RemoveFirst(_, _)
RemoveFirst(l, value) ==
    IF l = <<>> THEN <<>>
    ELSE IF Head(l) = value THEN Tail(l)
    ELSE <<Head(l)>> \o RemoveFirst(Tail(l), value)

Raised(c, error) == [cache |-> c, out |-> error, ret |-> PyNone]

Returned(c, ret) == [cache |-> c, out |-> "ok", ret |-> ret]

TempCache_set(c, key, value) == Returned(Put(c, key, value), PyBool(TRUE))

TempCache_get(c, key, default) ==
    Returned(c, IF key \in DOMAIN c THEN c[key] ELSE default)

TempCache_delete(c, key) ==
    IF key \notin DOMAIN c THEN Returned(c, PyBool(FALSE))
    ELSE Returned(Del(c, key), PyBool(TRUE))

\* a key the cache lacks is given the value first
WithDefault(c, key, first) == IF key \in DOMAIN c THEN c ELSE Put(c, key, first)

\* the branch "isinstance(value, list)": .extend exists on a list only
ListExtend(c, key, value) ==
    IF IsList(c[key])
    THEN Returned(Put(c, key, PyList(ExtendNovel(c[key].l, value.l, 1))), PyBool(TRUE))
    ELSE Raised(c, "AttributeError")

\* append with no membership test
ListAppend_NoTest(c, key, value) ==
    IF IsList(c[key]) THEN Returned(Put(c, key, PyList(Append(c[key].l, value))), PyBool(TRUE))
    ELSE IF IsDict(c[key]) THEN Raised(c, "AttributeError")
    ELSE Raised(c, "TypeError")

\* the branch "elif value not in cache[key]": the test needs a container (a
\* dict is searched by its keys), .append exists on a list only
ListAppend(c, key, value) ==
    IF IsList(c[key]) THEN
        IF InList(value, c[key].l) THEN Returned(c, PyBool(TRUE))
        ELSE Returned(Put(c, key, PyList(Append(c[key].l, value))), PyBool(TRUE))
    ELSE IF IsDict(c[key]) THEN
        IF HasItem(c[key].l, value) THEN Returned(c, PyBool(TRUE))
        ELSE Raised(c, "AttributeError")
    ELSE Raised(c, "TypeError")

ListSetOn(c, key, value) ==
    IF IsList(value) THEN ListExtend(c, key, value) ELSE ListAppend(c, key, value)

\* TempCache.list.set
ListWrapper_set(c, key, value) == ListSetOn(WithDefault(c, key, PyList(<<>>)), key, value)

\* delete that keeps the key of a list it emptied
ListRemoved_KeepEmpty(c, key, l) == Returned(Put(c, key, PyList(l)), PyBool(TRUE))

\* the list after .remove(value): the key goes with the last element
ListRemoved(c, key, l) ==
    IF l = <<>> THEN Returned(Del(c, key), PyBool(TRUE))
    ELSE Returned(Put(c, key, PyList(l)), PyBool(TRUE))

\* TempCache.list.delete
ListWrapper_delete(c, key, value) ==
    IF key \in DOMAIN c /\ IsList(c[key]) THEN
        IF InList(value, c[key].l) THEN ListRemoved(c, key, RemoveFirst(c[key].l, value))
        ELSE Returned(c, PyBool(FALSE))
    ELSE Returned(c, PyBool(FALSE))

\* set that overwrites what the sub key holds
FanIn_Overwrite(existing_value, value) == value

\* what sub_key holds after a set on a dict that has it
FanIn(existing_value, value) ==
    IF IsList(existing_value) THEN PyList(Append(existing_value.l, value))
    ELSE PyList(<<existing_value, value>>)

DictItemsSet(items, sub_key, value) ==
    IF HasItem(items, sub_key)
    THEN [items EXCEPT ![ItemAt(items, sub_key, 1)] =
              PyPair(sub_key, FanIn(ItemValue(items, sub_key), value))]
    ELSE Append(items, PyPair(sub_key, value))

DictSetOn(c, dict_key, sub_key, value) ==
    IF IsDict(c[dict_key])
    THEN Returned(Put(c, dict_key, PyDict(DictItemsSet(c[dict_key].l, sub_key, value))), PyBool(TRUE))
    ELSE Returned(c, PyBool(TRUE))

\* TempCache.dict.set
DictWrapper_set(c, dict_key, sub_key, value) ==
    DictSetOn(WithDefault(c, dict_key, PyDict(<<>>)), dict_key, sub_key, value)

\* the dict after .pop(sub_key, None): the key goes with the last item
DictPopped(c, dict_key, items) ==
    IF items = <<>> THEN Returned(Del(c, dict_key), PyNone)
    ELSE Returned(Put(c, dict_key, PyDict(items)), PyNone)

\* TempCache.dict.delete
DictWrapper_delete(c, dict_key, sub_key) ==
    IF dict_key \in DOMAIN c /\ IsDict(c[dict_key])
    THEN DictPopped(c, dict_key, SelectSeq(c[dict_key].l, LAMBDA it : it.l[1] # sub_key))
    ELSE Returned(c, PyNone)

-----------------------------------------------------------------------------
(* Calls on a TempCache *)

\* how long an item that is a list may be
MaxItemLen == 2

\* how many values a sub key of a dict may accumulate
MaxFanIn == 2

TKeys == {PyStr(TxtAB)}

Scalars == {PyInt(1), PyInt(2)}

\* items that are lists: the empty list and lists that repeat an element among them
ListItems == {PyList(l) : l \in UNION {[1..n -> Scalars] : n \in 0..MaxItemLen}}

\* values TempCache.set stores: a scalar, a list, a dict
StoredValues == {PyInt(1), PyList(<<PyInt(1)>>), PyDict(<<PyPair(PyInt(1), PyInt(2))>>)}

\* values handed to the dict helper
DictValues == {PyInt(2), PyList(<<PyInt(1)>>)}

NoHelperCall == [op |-> "none", key |-> PyNone, sub |-> PyNone, val |-> PyNone, out |-> "ok",
                 ret |-> PyNone, was |-> EmptyMap, again |-> FALSE, emptied |-> FALSE]

\* the call l was a list.delete that took the last element of its key's list
RemovedLast(l) ==
    /\ l.op = "list_delete" /\ l.ret = PyBool(TRUE)
    /\ l.key \in DOMAIN l.was
    /\ Len(l.was[l.key].l) = 1

\* one call on the TempCache: the cache after it, and the record of the call
\* with the cache before it, whether it repeats the call before it, and
\* whether the call before it emptied the list of the same key
HelperDone(op, key, sub, val, r) ==
    /\ tc' = r.cache
    /\ tlast' = [op |-> op, key |-> key, sub |-> sub, val |-> val, out |-> r.out, ret |-> r.ret,
                 was |-> tc,
                 again |-> (tlast.op = op /\ tlast.key = key /\ tlast.sub = sub /\ tlast.val = val),
                 emptied |-> (RemovedLast(tlast) /\ tlast.key = key)]

CacheSet(key, value) ==
    /\ HelperDone("set", key, PyNone, value, TempCache_set(tc, key, value))
    /\ UNCHANGED <<dbvars, appvars, modvars>>

CacheGet(key, default) ==
    /\ HelperDone("get", key, PyNone, default, TempCache_get(tc, key, default))
    /\ UNCHANGED <<dbvars, appvars, modvars>>

CacheDelete(key) ==
    /\ HelperDone("delete", key, PyNone, PyNone, TempCache_delete(tc, key))
    /\ UNCHANGED <<dbvars, appvars, modvars>>

ListSet(key, value) ==
    /\ HelperDone("list_set", key, PyNone, value, ListWrapper_set(tc, key, value))
    /\ UNCHANGED <<dbvars, appvars, modvars>>

ListDelete(key, value) ==
    /\ HelperDone("list_delete", key, PyNone, value, ListWrapper_delete(tc, key, value))
    /\ UNCHANGED <<dbvars, appvars, modvars>>

\* the sub key's list, if it has one, is shorter than MaxFanIn
FanInRoom(c, dict_key, sub_key) ==
    (dict_key \in DOMAIN c /\ IsDict(c[dict_key]) /\ HasItem(c[dict_key].l, sub_key)
        /\ IsList(ItemValue(c[dict_key].l, sub_key)))
    => Len(ItemValue(c[dict_key].l, sub_key).l) < MaxFanIn

DictSet(dict_key, sub_key, value) ==
    /\ FanInRoom(tc, dict_key, sub_key)
    /\ HelperDone("dict_set", dict_key, sub_key, value, DictWrapper_set(tc, dict_key, sub_key, value))
    /\ UNCHANGED <<dbvars, appvars, modvars>>

DictDelete(dict_key, sub_key) ==
    /\ HelperDone("dict_delete", dict_key, sub_key, PyNone, DictWrapper_delete(tc, dict_key, sub_key))
    /\ UNCHANGED <<dbvars, appvars, modvars>>

-----------------------------------------------------------------------------
(* Handlers as concurrent tasks.  A handler is a coroutine on the one event *)
(* loop of the application: other tasks run only while it is suspended at   *)
(* an await.  modules/database.py set_db awaits the reply to the update,    *)
(* calls database.set(key, value), a plain function with no await in it,    *)
(* and awaits the edit of its reply.                                        *)

Tasks == {1, 2}

NoTasks == [t \in {} |-> [pc |-> "none", op |-> "set", key |-> PyNone, val |-> PyNone, ret |-> PyNone]]

\* a set_db handler on the command text `key value`
NewTask(key, value) == [pc |-> "new", op |-> "set", key |-> key, val |-> value, ret |-> PyNone]

\* a get_db handler on the command text `key`
NewGet(key) == [pc |-> "new", op |-> "get", key |-> key, val |-> PyNone, ret |-> PyNone]

\* message = await update.message.reply_text(PROCESS)
TaskReply(t) ==
    /\ CoreRunning
    /\ t \in DOMAIN tasks
    /\ tasks[t].pc = "new"
    /\ tasks' = [tasks EXCEPT ![t].pc = "replied"]
    /\ UNCHANGED <<dbvars, tcvars, app, modvars>>

\* db.set(key, value): the whole of BaseDatabase.set runs before any other
\* task does; DatabaseError ends the handler
TaskStored(t, r) ==
    /\ SetDone(tasks[t].key, tasks[t].val, FALSE, r)
    /\ tasks' = [tasks EXCEPT ![t].pc = IF r.out = "ok" THEN "stored" ELSE "raised"]

TaskStore(t, fail) ==
    /\ CoreRunning
    /\ t \in DOMAIN tasks
    /\ tasks[t].pc = "replied"
    /\ tasks[t].op = "set"
    /\ TaskStored(t, BaseDatabase_set(cache, backend, tasks[t].key, tasks[t].val, FALSE,
                                      DriverFails(fail)))
    /\ UNCHANGED <<draft, env, proc, driver, selected, conn, collection, tcvars, app, modvars>>

\* await message.edit_text(final_text); return
TaskEdit(t) ==
    /\ CoreRunning
    /\ t \in DOMAIN tasks
    /\ tasks[t].pc \in {"stored", "fetched"}
    /\ tasks' = [tasks EXCEPT ![t].pc = "done"]
    /\ UNCHANGED <<dbvars, tcvars, app, modvars>>

\* value = db.get(context.args[0], None): the whole of BaseDatabase.get runs
\* before any other task does
TaskFetched(t, r) ==
    /\ GetDone(tasks[t].key, PyNone, r)
    /\ tasks' = [tasks EXCEPT ![t].pc = IF r.out = "ok" THEN "fetched" ELSE "raised",
                              ![t].ret = r.ret]

TaskFetch(t, fail) ==
    /\ CoreRunning
    /\ t \in DOMAIN tasks
    /\ tasks[t].pc = "replied"
    /\ tasks[t].op = "get"
    /\ TaskFetched(t, BaseDatabase_get(cache, backend, tasks[t].key, PyNone, DriverFails(fail)))
    /\ UNCHANGED <<draft, env, proc, driver, selected, conn, backend, collection, tcvars, app, modvars>>

-----------------------------------------------------------------------------
(* tgbot/core/application.py: TelegramApplication.on_command *)

PyTuple(l) == [t |-> "tuple", n |-> 0, e |-> 0, s |-> <<>>, l |-> l]

\* bool(v)
Truthy(v) ==
    CASE v.t = "none" -> FALSE
      [] v.t \in {"bool", "int", "float"} -> v.n # 0
      [] v.t = "str" -> v.s # <<>>
      [] OTHER -> v.l # <<>>

\* list(text): the characters of the text
Chars(s) == PyList([i \in 1..Len(s) |-> PyStr(<<s[i]>>)])

Slash == PyStr(<<"/">>)

TxtPREFIXES == <<"P", "R", "E", "F", "I", "X", "E", "S">>

TxtADMINS == <<"A", "D", "M", "I", "N", "S">>

NoHandler == [out |-> "none", prefixes |-> PyNone, owner_only |-> FALSE, admins_only |-> FALSE,
              chat_type |-> "none"]

NoUpdate == [out |-> "none", sender |-> 0, is_group |-> FALSE, admins |-> PyNone]

\* no application: OWNER_ID and PREFIXES as decouple gives them with nothing
\* configured
NoApp == [owner |-> 0, var_prefixes |-> PyList(<<Slash>>), handler |-> NoHandler,
          update |-> NoUpdate]

\* registration that leaves the prefixes as they came
WithSlash_NoAppend(p) ==
    IF p.t \notin {"list", "tuple"} THEN [out |-> "TypeError", prefixes |-> PyNone]
    ELSE [out |-> "registered", prefixes |-> p]

\* if "/" not in prefixes: prefixes.append("/"), then add_handler: the test
\* needs a container, .append exists on a list only
WithSlash(p) ==
    IF p.t \notin {"list", "tuple"} THEN [out |-> "TypeError", prefixes |-> PyNone]
    ELSE IF InList(Slash, p.l) THEN [out |-> "registered", prefixes |-> p]
    ELSE IF IsList(p) THEN [out |-> "registered", prefixes |-> PyList(Append(p.l, Slash))]
    ELSE [out |-> "AttributeError", prefixes |-> PyNone]

\* if isinstance(prefixes, str): prefixes = list(prefixes)
AsList(p) == IF IsStr(p) THEN Chars(p.s) ELSE p

\* prefixes or database.get("PREFIXES") or Var.PREFIXES; the second operand is
\* evaluated, through the cache, only when the argument is falsy
ResolvedPrefixes(arg, g, var_prefixes) ==
    IF Truthy(arg) THEN [cache |-> cache, out |-> "ok", prefixes |-> arg, from |-> "argument"]
    ELSE IF g.out # "ok" THEN [cache |-> g.cache, out |-> g.out, prefixes |-> PyNone, from |-> "none"]
    ELSE IF Truthy(g.ret) THEN [cache |-> g.cache, out |-> "ok", prefixes |-> g.ret, from |-> "database"]
    ELSE [cache |-> g.cache, out |-> "ok", prefixes |-> var_prefixes, from |-> "Var"]

\* prefixes.append("/") changes the list object itself: the one the cache
\* holds under PREFIXES, or the one Var holds, when the prefixes came from there
Appended(r, w, from) ==
    r.out = "ok" /\ r.from = from /\ IsList(r.prefixes) /\ w.out = "registered"

\* the handler on_command registers, or the exception it ends in
Registered(r, w, owner_only, admins_only, chat_type) ==
    [out |-> IF r.out # "ok" THEN r.out ELSE w.out,
     prefixes |-> IF r.out # "ok" THEN PyNone ELSE w.prefixes,
     owner_only |-> owner_only, admins_only |-> admins_only, chat_type |-> chat_type]

RegisterDone(r, w, owner_only, admins_only, chat_type) ==
    /\ cache' = IF Appended(r, w, "database") THEN Put(r.cache, PyStr(TxtPREFIXES), w.prefixes)
                ELSE r.cache
    /\ app' = [app EXCEPT !.handler = Registered(r, w, owner_only, admins_only, chat_type),
                          !.var_prefixes = IF Appended(r, w, "Var") THEN w.prefixes ELSE @]

\* the steps of on_command from the prefixes it resolved
RegisterResolved(r, owner_only, admins_only, chat_type) ==
    RegisterDone(r, WithSlash(AsList(r.prefixes)), owner_only, admins_only, chat_type)

\* on_command(commands, prefixes, owner_only, admins_only, chat_type)(func)
Register(arg, owner_only, admins_only, chat_type, fail) ==
    /\ CoreRunning
    /\ app.update.out = "none"
    /\ RegisterResolved(ResolvedPrefixes(arg,
                                         BaseDatabase_get(cache, backend, PyStr(TxtPREFIXES),
                                                          PyNone, DriverFails(fail)),
                                         app.var_prefixes),
                        owner_only, admins_only, chat_type)
    /\ UNCHANGED <<draft, env, proc, driver, selected, conn, backend, collection, last>>
    /\ UNCHANGED <<tcvars, tasks, modvars>>

\* int(x) for an element of the ADMINS value
IntOf(x) ==
    IF x.t \in {"int", "bool"} THEN [ok |-> TRUE, n |-> x.n]
    ELSE IF IsStr(x) /\ ParseInt(Strip(x.s)).ok THEN [ok |-> TRUE, n |-> ParseInt(Strip(x.s)).v.n]
    ELSE [ok |-> FALSE, n |-> 0]

\* the elements iterating over the value yields; an int cannot be iterated
Elements(v) ==
    IF IsStr(v) THEN Chars(v.s).l ELSE v.l

\* admins = [int(x) for x in get_admins]; admins.append(owner)
AdminIds(get_admins, owner) ==
    IF get_admins.t \notin {"list", "tuple", "str"} THEN [out |-> "TypeError", ids |-> {}]
    ELSE IF \E i \in 1..Len(Elements(get_admins)) : ~IntOf(Elements(get_admins)[i]).ok
    THEN [out |-> "ValueError", ids |-> {}]
    ELSE [out |-> "ok",
          ids |-> {IntOf(Elements(get_admins)[i]).n : i \in 1..Len(Elements(get_admins))}
                      \cup {owner}]

\* the two chat type tests in front of the callback
ChatTypeChecked(chat_type, is_group) ==
    IF chat_type = "private" /\ is_group THEN "private_only"
    ELSE IF chat_type = "group" /\ ~is_group THEN "group_only"
    ELSE "callback"

\* if admins_only: ... if user.id not in admins: reply, return
AdminsChecked(a, h, sender, is_group) ==
    IF a.out # "ok" THEN a.out
    ELSE IF sender \notin a.ids THEN "not_authorized"
    ELSE ChatTypeChecked(h.chat_type, is_group)

\* get_admins = database.get("ADMINS") or []
AdminsFetched(g, h, owner, sender, is_group) ==
    IF g.out # "ok" THEN g.out
    ELSE AdminsChecked(AdminIds(IF Truthy(g.ret) THEN g.ret ELSE PyList(<<>>), owner),
                       h, sender, is_group)

\* what the wrapper does with an update, g being the database.get it makes
\* when the command is admins_only
wrapper(h, owner, sender, is_group, g) ==
    IF h.owner_only /\ sender # owner THEN "not_authorized"
    ELSE IF h.admins_only THEN AdminsFetched(g, h, owner, sender, is_group)
    ELSE ChatTypeChecked(h.chat_type, is_group)

\* database.get is called for admins_only commands that pass the owner test
ReadsAdmins(h, owner, sender) == h.admins_only /\ ~(h.owner_only /\ sender # owner)

UpdateDone(sender, is_group, g) ==
    /\ cache' = IF ReadsAdmins(app.handler, app.owner, sender) THEN g.cache ELSE cache
    /\ app' = [app EXCEPT !.update =
                   [out |-> wrapper(app.handler, app.owner, sender, is_group, g),
                    sender |-> sender, is_group |-> is_group,
                    admins |-> IF ReadsAdmins(app.handler, app.owner, sender) /\ g.out = "ok"
                               THEN g.ret ELSE PyNone]]

\* an update that matches the registered command reaches the wrapper
HandleUpdate(sender, is_group, fail) ==
    /\ CoreRunning
    /\ app.handler.out = "registered"
    /\ UpdateDone(sender, is_group,
                  BaseDatabase_get(cache, backend, PyStr(TxtADMINS), PyNone, DriverFails(fail)))
    /\ UNCHANGED <<draft, env, proc, driver, selected, conn, backend, collection, last>>
    /\ UNCHANGED <<tcvars, tasks, modvars>>

\* modules/settings.py set_prefix: db.set("PREFIXES", prefix), prefix being
\* safe_convert of the text the owner sent
StorePrefixes(prefix) ==
    /\ app.handler.out = "none"
    /\ Set(PyStr(TxtPREFIXES), prefix, FALSE, FALSE)

\* modules/database.py set_db: db.set("ADMINS", value), value being the text
\* of the command
StoreAdmins(text) ==
    /\ app.handler.out = "registered"
    /\ Set(PyStr(TxtADMINS), PyStr(text), FALSE, FALSE)

\* inputs of the application
OwnerIds == {1}

Senders == {1, 2, 3, 9}

TxtBang == <<"!">>

VarPrefixes == {PyList(<<Slash>>), PyList(<<PyStr(TxtBang)>>)}

PrefixArgs == {PyNone, PyStr(<<"!", ".">>), PyList(<<PyStr(TxtBang)>>), PyTuple(<<PyStr(TxtBang)>>),
               PyTuple(<<Slash, PyStr(TxtBang)>>)}

\* what set_prefix stores for the texts "!", "5" and "! ."
StoredPrefixes == {PyStr(TxtBang), PyInt(5), PyList(<<PyStr(TxtBang), PyStr(<<".">>)>>)}

\* the texts [2, "3"] and 2
TxtAdminList == <<"[", "2", ",", " ", "\"", "3", "\"", "]">>

TxtAdminOne == <<"2">>

AdminTexts == {TxtAdminList, TxtAdminOne}

ChatTypes == {"none", "private", "group"}

-----------------------------------------------------------------------------
(* tgbot/utils/helpers.py: safe_convert on the texts of a message *)

NoConversion == [text |-> <<>>, out |-> PyNone, called |-> FALSE]

\* how long the texts built from the numeral alphabet are
MaxTextLen == 3

NumeralAlphabet == {"4", "2", ".", "-", " "}

Numerals == UNION {[1..k -> NumeralAlphabet] : k \in 0..MaxTextLen}

UpperCase(c) ==
    CASE c = "t" -> "T" [] c = "r" -> "R" [] c = "u" -> "U" [] c = "e" -> "E"
      [] c = "f" -> "F" [] c = "a" -> "A" [] c = "l" -> "L" [] c = "s" -> "S"
      [] OTHER -> c

\* the spellings of a lower-case word in every letter case
CaseVariants(w) ==
    {[i \in 1..Len(w) |-> IF i \in U THEN UpperCase(w[i]) ELSE w[i]] : U \in SUBSET (1..Len(w))}

TxtTrue == <<"t", "r", "u", "e">>

TxtFalse == <<"f", "a", "l", "s", "e">>

Txt314 == <<"3", ".", "1", "4">>

TxtList12 == <<"[", "1", ",", " ", "2", "]">>

TxtHello == <<"h", "e", "l", "l", "o">>

MessageTexts ==
    Numerals \cup CaseVariants(TxtTrue) \cup CaseVariants(TxtFalse) \cup {Txt42, Txt314, TxtList12, TxtHello}

\* safe_convert(value)
Convert(text) ==
    /\ conv' = [text |-> text, out |-> safe_convert(text), called |-> TRUE]
    /\ UNCHANGED <<dbvars, tcvars, appvars, convo, ex, msg>>

-----------------------------------------------------------------------------
(* tgbot/core/application.py: TelegramApplication.conversation *)

\* the `async with app.conversation(chat_id)` blocks the handlers may be in
Contexts == {1, 2, 3}

ChatIds == {1, 2}

\* after __init__: self._convo = {}, self._msg_handler = None, nothing added
NoConvo == [_convo |-> {}, _msg_handler |-> "None", registered |-> FALSE,
            ctx |-> [c \in Contexts |-> 0], out |-> "none"]

\* if not hasattr(self, "_msg_handler"): build the handler and add it
Entered(a, c, chat_id) ==
    [_convo |-> a._convo \cup {chat_id},
     _msg_handler |-> IF a._msg_handler = "deleted" THEN "handler" ELSE a._msg_handler,
     registered |-> a.registered \/ a._msg_handler = "deleted",
     ctx |-> [a.ctx EXCEPT ![c] = chat_id],
     out |-> "entered"]

\* if not self._convo: self.remove_handler(self._msg_handler); del self._msg_handler
\* (remove_handler of a handler that was never added removes nothing)
LastExited(a, left) ==
    IF left # {} THEN [a EXCEPT !._convo = left, !.out = "exited"]
    ELSE [a EXCEPT !._convo = left, !._msg_handler = "deleted", !.registered = FALSE,
                   !.out = "exited"]

\* finally: del self._convo[chat_id], a KeyError when another block on the
\* same chat deleted the entry already
Exited(a, c) ==
    IF a.ctx[c] \notin a._convo THEN [a EXCEPT !.ctx[c] = 0, !.out = "KeyError"]
    ELSE LastExited([a EXCEPT !.ctx[c] = 0], a._convo \ {a.ctx[c]})

\* async with self.conversation(chat_id) as conv: up to the yield
Enter(c, chat_id) ==
    /\ convo.ctx[c] = 0
    /\ convo' = Entered(convo, c, chat_id)
    /\ UNCHANGED <<dbvars, tcvars, appvars, conv, ex, msg>>

\* the block ends, by return, exception or cancellation
Exit(c) ==
    /\ convo.ctx[c] # 0
    /\ convo' = Exited(convo, c)
    /\ UNCHANGED <<dbvars, tcvars, appvars, conv, ex, msg>>

-----------------------------------------------------------------------------
(* modules/aexec.py: the exec command *)

\* `word in text`
Contains(text, word) == \E i \in 1..Len(text) : StartsAt(text, i, word)

\* entries of KeepSafe().get()["All"]
DangerWords == {<<"d", "d">>, <<"e", "x", "e", "c">>, <<"A", "D", "M", "I", "N", "S">>}

\* any(d in cmd for d in KeepSafe().get()["All"])
is_dangerous(cmd) == \E d \in DangerWords : Contains(cmd, d)

\* black.format_str(cmd, mode=black.Mode()) on the texts of the model: the
\* code followed by a newline; cmd stays as it is without black
Formatted(cmd, black) == IF black THEN DropRight(cmd, " ") \o <<"\n">> ELSE cmd

\* update.message.text.split(maxsplit=1)[1] for the text that follows the
\* command word: IndexError when only spaces follow
Argument(rest) ==
    IF DropLeft(rest, " ") = <<>> THEN [ok |-> FALSE, cmd |-> <<>>]
    ELSE [ok |-> TRUE, cmd |-> DropLeft(rest, " ")]

NoExec == [out |-> "none", sender |-> 0, cmd |-> <<>>, ran |-> <<>>]

\* the command is turned down
Aborted_Never(cmd, sender, owner) == FALSE

\* if is_dangerous(cmd) and user.id != OWNER_ID
Aborted(cmd, sender, owner) == is_dangerous(cmd) /\ sender # owner

\* from the check on: the notice to the log group (which may raise) and the
\* "operation aborted" edit, or async_exec(cmd, update, context)
Checked(cmd, sender, owner, fail) ==
    IF Aborted(cmd, sender, owner)
    THEN [out |-> IF fail THEN "TelegramError" ELSE "aborted", sender |-> sender, cmd |-> cmd,
          ran |-> <<>>]
    ELSE [out |-> "executed", sender |-> sender, cmd |-> cmd, ran |-> cmd]

Parsed(a, sender, owner, black, fail) ==
    IF ~a.ok THEN [out |-> "usage", sender |-> sender, cmd |-> <<>>, ran |-> <<>>]
    ELSE Checked(Formatted(a.cmd, black), sender, owner, fail)

\* the callback of the exec command on an update the wrapper let through
aexec(sender, rest, black, fail) ==
    /\ ex' = Parsed(Argument(rest), sender, app.owner, black, fail)
    /\ UNCHANGED <<dbvars, tcvars, appvars, conv, convo, msg>>

\* how long the text after the command word is
MaxCmdLen == 3

CmdAlphabet == {"d", "1", " "}

CmdTexts == UNION {[1..k -> CmdAlphabet] : k \in 0..MaxCmdLen}

-----------------------------------------------------------------------------
(* tgbot/core/application.py: TelegramApplication.on_message *)

\* no handler: `ids` are the user ids filters.User lets through, `open` says
\* that there is no filter at all
NoMessageHandler == [out |-> "none", open |-> TRUE, ids |-> {}, owner_only |-> FALSE,
                     admins_only |-> FALSE,
                     update |-> [out |-> "none", sender |-> 0, admins |-> PyNone]]

\* if owner_only: extra_filter = filters.User(owner)
OwnerFilter(owner_only, owner) ==
    IF owner_only THEN [out |-> "ok", open |-> FALSE, ids |-> {owner}]
    ELSE [out |-> "ok", open |-> TRUE, ids |-> {}]

\* extra_filter & filters.User(ids)
AndUser(f, ids) ==
    IF f.open THEN [out |-> "ok", open |-> FALSE, ids |-> ids]
    ELSE [out |-> "ok", open |-> FALSE, ids |-> f.ids \cap ids]

\* if get_admins: admins = [int(x) ...] + [owner]; filters.User(admins)
\* else: filters.User(owner)
AdminFilter(f, a, get_admins, owner) ==
    IF ~Truthy(get_admins) THEN AndUser(f, {owner})
    ELSE IF a.out # "ok" THEN [out |-> a.out, open |-> FALSE, ids |-> {}]
    ELSE AndUser(f, a.ids)

\* _dynamic_filter(owner_only, admins_only, None), g being the
\* database.get("ADMINS", []) it makes when admins_only
DynamicFilter(owner_only, admins_only, owner, g) ==
    IF ~admins_only THEN OwnerFilter(owner_only, owner)
    ELSE IF g.out # "ok" THEN [out |-> g.out, open |-> FALSE, ids |-> {}]
    ELSE AdminFilter(OwnerFilter(owner_only, owner),
                     IF Truthy(g.ret) THEN AdminIds(g.ret, owner) ELSE [out |-> "ok", ids |-> {owner}],
                     g.ret, owner)

MessageRegistered(f, owner_only, admins_only) ==
    [out |-> IF f.out = "ok" THEN "registered" ELSE f.out, open |-> f.open, ids |-> f.ids,
     owner_only |-> owner_only, admins_only |-> admins_only,
     update |-> [out |-> "none", sender |-> 0, admins |-> PyNone]]

OnMessageDone(owner_only, admins_only, g) ==
    /\ cache' = IF admins_only THEN g.cache ELSE cache
    /\ msg' = MessageRegistered(DynamicFilter(owner_only, admins_only, app.owner, g),
                                owner_only, admins_only)

\* on_message(owner_only=..., admins_only=...)(func)
on_message(owner_only, admins_only, fail) ==
    /\ CoreRunning
    /\ msg.out = "none"
    /\ OnMessageDone(owner_only, admins_only,
                     BaseDatabase_get(cache, backend, PyStr(TxtADMINS), PyList(<<>>),
                                      DriverFails(fail)))
    /\ UNCHANGED <<draft, env, proc, driver, selected, conn, backend, collection, last>>
    /\ UNCHANGED <<tcvars, appvars, conv, convo, ex>>

\* what the database answers for ADMINS, kept with the update for the record
AdminsNow == BaseDatabase_get(cache, backend, PyStr(TxtADMINS), PyList(<<>>), FALSE).ret

\* MessageHandler.check_update on a message of the sender, then the callback
MessageUpdate(sender) ==
    /\ msg.out = "registered"
    /\ msg' = [msg EXCEPT !.update = [out |-> IF msg.open \/ sender \in msg.ids
                                               THEN "callback" ELSE "filtered",
                                      sender |-> sender, admins |-> AdminsNow]]
    /\ UNCHANGED <<dbvars, tcvars, appvars, conv, convo, ex>>

\* the texts [2] and []
TxtAdminShort == <<"[", "2", "]">>

TxtAdminNone == <<"[", "]">>

\* modules/database.py set_db on ADMINS, before or after the registration
ChangeAdmins(text) ==
    /\ Set(PyStr(TxtADMINS), PyStr(text), FALSE, FALSE)

\* the state of the modules before anything ran
ModInit == conv = NoConversion /\ convo = NoConvo /\ ex = NoExec /\ msg = NoMessageHandler

-----------------------------------------------------------------------------

Init ==
    /\ draft \in Drafts
    /\ env \in Envs
    /\ proc = "boot"
    /\ driver = "none"
    /\ selected = "none"
    /\ conn = "none"
    /\ cache = EmptyMap
    /\ backend = EmptyMap
    /\ collection = EmptyMap
    /\ last = NoCall
    /\ tc = EmptyMap
    /\ tlast = NoHelperCall
    /\ tasks = NoTasks
    /\ app = NoApp
    /\ ModInit

Next ==
    \/ \E ok \in BOOLEAN : StartCore(ok)
    \/ \E ok \in BOOLEAN : StartLegacy(ok)
    \/ \E connect \in Connects : StartUtils(connect)
    \/ \E k \in Keys, v \in Values : Set(k, v, TRUE, FALSE)
    \/ \E k \in Keys, v \in Values, fail \in BOOLEAN : Set(k, v, FALSE, fail)
    \/ \E k \in Keys, d \in Defaults, fail \in BOOLEAN : Get(k, d, fail)
    \/ \E k \in Keys, fail \in BOOLEAN : Pop(k, fail)
    \/ \E order \in Orders(DOMAIN backend), fail \in BOOLEAN : Refresh(order, fail)
    \/ Close
    \/ \E kt \in ExternalKeys, text \in ExternalTexts : ExternalWrite(kt, text)
    \/ \E k \in Keys, v \in Values, fail \in BOOLEAN : MongoSet(k, v, fail)
    \/ \E k \in Keys, fail \in BOOLEAN : MongoGet(k, fail)
    \/ \E k \in Keys, fail \in BOOLEAN : MongoDelete(k, fail)
    \/ \E fail \in BOOLEAN : MongoKeys(fail)

Spec == Init /\ [][Next]_vars

\* a TempCache on its own: the cache of helpers.py is a dict of the process,
\* next to the database
InitCache ==
    /\ Init
    /\ draft = "core"
    /\ env = [MONGO_URI |-> FALSE, DATABASE_URL |-> FALSE]

NextCache ==
    \/ \E key \in TKeys, value \in StoredValues : CacheSet(key, value)
    \/ \E key \in TKeys, default \in Defaults : CacheGet(key, default)
    \/ \E key \in TKeys : CacheDelete(key)
    \/ \E key \in TKeys, value \in Scalars \cup ListItems : ListSet(key, value)
    \/ \E key \in TKeys, value \in Scalars : ListDelete(key, value)
    \/ \E key \in TKeys, sub \in Scalars, value \in DictValues : DictSet(key, sub, value)
    \/ \E key \in TKeys, sub \in Scalars : DictDelete(key, sub)

SpecCache == InitCache /\ [][NextCache]_vars

\* two set_db handlers in flight on a connected SQLite facade with an empty
\* cache and table, each with the key and the value of its update
InitTasks ==
    /\ draft = "core"
    /\ env = [MONGO_URI |-> FALSE, DATABASE_URL |-> FALSE]
    /\ proc = "running"
    /\ driver = "sqlite3"
    /\ selected = "SQLite"
    /\ conn = "open"
    /\ cache = EmptyMap
    /\ backend = EmptyMap
    /\ collection = EmptyMap
    /\ last = NoCall
    /\ tc = EmptyMap
    /\ tlast = NoHelperCall
    /\ tasks \in [Tasks -> {NewTask(k, v) : k \in Keys, v \in Values}]
    /\ app = NoApp
    /\ ModInit

NextTasks ==
    \/ \E t \in Tasks : TaskReply(t)
    \/ \E t \in Tasks, fail \in BOOLEAN : TaskStore(t, fail)
    \/ \E t \in Tasks : TaskEdit(t)

SpecTasks == InitTasks /\ [][NextTasks]_vars

\* a set_db handler and a get_db handler started on updates that arrived
\* together, over a table that may hold an older row of the key
InitRace ==
    /\ draft = "core"
    /\ env = [MONGO_URI |-> FALSE, DATABASE_URL |-> FALSE]
    /\ proc = "running"
    /\ driver = "sqlite3"
    /\ selected = "SQLite"
    /\ conn = "open"
    /\ cache = EmptyMap
    /\ backend \in {EmptyMap} \cup {Put(EmptyMap, kt, text) : kt \in ExternalKeys, text \in ExternalTexts}
    /\ collection = EmptyMap
    /\ last = NoCall
    /\ tc = EmptyMap
    /\ tlast = NoHelperCall
    /\ tasks \in {[t \in Tasks |-> IF t = 1 THEN NewTask(k, v) ELSE NewGet(g)] :
                     k \in Keys, v \in Values, g \in Keys}
    /\ app = NoApp
    /\ ModInit

NextRace ==
    \/ \E t \in Tasks : TaskReply(t)
    \/ \E t \in Tasks, fail \in BOOLEAN : TaskStore(t, fail)
    \/ \E t \in Tasks, fail \in BOOLEAN : TaskFetch(t, fail)
    \/ \E t \in Tasks : TaskEdit(t)

SpecRace == InitRace /\ [][NextRace]_vars

\* an application on a connected SQLite facade with an empty cache and table:
\* prefixes are stored before the handlers are registered (they are read at
\* registration), admins while the bot runs
InitApp ==
    /\ draft = "core"
    /\ env = [MONGO_URI |-> FALSE, DATABASE_URL |-> FALSE]
    /\ proc = "running"
    /\ driver = "sqlite3"
    /\ selected = "SQLite"
    /\ conn = "open"
    /\ cache = EmptyMap
    /\ backend = EmptyMap
    /\ collection = EmptyMap
    /\ last = NoCall
    /\ tc = EmptyMap
    /\ tlast = NoHelperCall
    /\ tasks = NoTasks
    /\ app \in {[NoApp EXCEPT !.owner = o, !.var_prefixes = p] : o \in OwnerIds, p \in VarPrefixes}
    /\ ModInit

InitConvert == Init /\ draft = "core" /\ env = [MONGO_URI |-> FALSE, DATABASE_URL |-> FALSE]

NextConvert == \E text \in MessageTexts : Convert(text)

SpecConvert == InitConvert /\ [][NextConvert]_vars

NextConvo ==
    \/ \E c \in Contexts, chat_id \in ChatIds : Enter(c, chat_id)
    \/ \E c \in Contexts : Exit(c)

SpecConvo == InitConvert /\ [][NextConvo]_vars

\* a running bot whose OWNER_ID is configured
InitExec == InitApp /\ app.var_prefixes = PyList(<<Slash>>)

NextExec == \E sender \in Senders, rest \in CmdTexts, black \in BOOLEAN, fail \in BOOLEAN :
                aexec(sender, rest, black, fail)

SpecExec == InitExec /\ [][NextExec]_vars

NextMessage ==
    \/ \E owner_only \in BOOLEAN, admins_only \in BOOLEAN, fail \in BOOLEAN :
            on_message(owner_only, admins_only, fail)
    \/ \E sender \in Senders : MessageUpdate(sender)
    \/ \E text \in {TxtAdminList, TxtAdminShort, TxtAdminNone, TxtAdminOne} : ChangeAdmins(text)

SpecMessage == InitExec /\ [][NextMessage]_vars

NextApp ==
    \/ \E prefix \in StoredPrefixes : StorePrefixes(prefix)
    \/ \E arg \in PrefixArgs, owner_only \in BOOLEAN, admins_only \in BOOLEAN,
          chat_type \in ChatTypes, fail \in BOOLEAN :
            Register(arg, owner_only, admins_only, chat_type, fail)
    \/ \E text \in AdminTexts : StoreAdmins(text)
    \/ \E sender \in Senders, is_group \in BOOLEAN, fail \in BOOLEAN :
            HandleUpdate(sender, is_group, fail)

SpecApp == InitApp /\ [][NextApp]_vars

-----------------------------------------------------------------------------
(* Properties of the database facade (tgbot/core/database.py)               *)

\* the key of the last call as the facade stores it
LastKey == ConvertIfStr(last.key)

\* the key column text of the last call's key
LastRow == ColText(LastKey)

\* C1, as stated: a get right after set(k, v) returns a value equal to v.
C1_ReadYourWrite ==
    (last.op = "get" /\ last.prev.op = "set") => last.ret = last.prev.val

\* C1, amended: a get right after set(k, v) raises nothing and returns v when
\* v is not a string and safe_convert(v) when it is: the string "42" is read
\* back as the integer 42.
C1_ReadYourConvertedWrite ==
    (last.op = "get" /\ last.prev.op = "set")
        => /\ last.out = "ok"
           /\ last.hit
           /\ ~IsStr(last.prev.val) => last.ret = last.prev.val
           /\ IsStr(last.prev.val) => last.ret = safe_convert(last.prev.val.s)

C1_Witness ==
    /\ last.op = "get" /\ last.prev.op = "set"
    /\ last.prev.val = PyStr(Txt42)
    /\ last.ret = PyInt(42)

C3_PopThenGetReturnsDefault ==
    /\ (last.op = "pop" /\ last.out = "ok")
           => (LastKey \notin DOMAIN cache /\ LastRow \notin DOMAIN backend)
    /\ (last.op = "get" /\ last.prev.op = "pop" /\ last.prev.out = "ok" /\ last.out = "ok")
           => (~last.hit /\ last.ret = last.dflt)

C3_Witness ==
    /\ last.op = "get" /\ last.prev.op = "pop" /\ last.prev.out = "ok" /\ last.out = "ok"
    /\ last.dflt = PyInt(0) /\ last.ret = PyInt(0)

C5_RefreshMirrorsBackend ==
    last.op = "refresh" =>
        /\ \A kt \in DOMAIN backend :
               /\ safe_convert(kt) \in DOMAIN cache
               /\ cache[safe_convert(kt)] = safe_convert(backend[kt])
        /\ Cardinality(DOMAIN cache) = Cardinality(DOMAIN backend)

\* C6: a get of a cached key returns the cached value and reads nothing else,
\* whatever the table holds; a get that misses and whose SELECT succeeds
\* returns what fetchone gives (the decoded row, or the default when there is
\* no row) and caches it; and no get and no out-of-band write changes or
\* removes an entry the cache already holds.
C6_CacheFirst ==
    [][/\ last'.op = "get" =>
            /\ ConvertIfStr(last'.key) \in DOMAIN cache =>
                   /\ last'.ret = cache[ConvertIfStr(last'.key)]
                   /\ last'.out = "ok"
                   /\ cache' = cache
            /\ (ConvertIfStr(last'.key) \notin DOMAIN cache /\ last'.out = "ok") =>
                   /\ last'.ret = IF ColText(ConvertIfStr(last'.key)) \in DOMAIN backend
                                  THEN safe_convert(backend[ColText(ConvertIfStr(last'.key))])
                                  ELSE last'.dflt
                   /\ cache' = Put(cache, ConvertIfStr(last'.key), last'.ret)
       /\ last'.op \in {"get", "external"} =>
            \A x \in DOMAIN cache : x \in DOMAIN cache' /\ cache'[x] = cache[x]
    ]_vars

\* a stale hit: the row was changed out of band and get still returns the
\* cached value
C6_Witness ==
    /\ last.op = "get" /\ last.hit
    /\ LastRow \in DOMAIN backend
    /\ backend[LastRow] = Txt5
    /\ last.ret # PyInt(5)

-----------------------------------------------------------------------------
(* Properties of start-up and of failures                                   *)

\* C7, as stated: the backend the start-up code instantiates, and the driver
\* it imports, follow the priority MONGO_URI, DATABASE_URL, local file.
C7_SelectionPriority ==
    (draft \in {"core", "legacy"} /\ proc # "boot") =>
        IF env.MONGO_URI THEN selected = "MongoDB" /\ driver = "pymongo"
        ELSE IF env.DATABASE_URL THEN selected = "PostgreSQL" /\ driver = "psycopg2"
        ELSE selected = "SQLite" /\ driver = "sqlite3"

\* C8, as stated: a process that is running has connected at start-up (a
\* failed connect ends the process).
C8_ConnectFailureIsFatal == proc = "running" => conn \in {"open", "closed"}

MongoOps == {"mongo_set", "mongo_get", "mongo_delete", "mongo_keys"}

C10_NoNativeException == last.out \notin {"sqlite3.Error", "PyMongoError"}

\* C11, as stated: once the connection is closed no set, get, pop or refresh
\* succeeds.
C11_ClosedMeansNoSuccess ==
    (conn = "closed" /\ last.op \in {"set", "get", "pop", "refresh"}) => last.out # "ok"

-----------------------------------------------------------------------------
(* Properties of the TempCache (tgbot/utils/helpers.py)                     *)

\* the list a key held before the last call, empty when it held none
ListWas == IF tlast.key \in DOMAIN tlast.was THEN tlast.was[tlast.key].l ELSE <<>>

\* the key held a list, or nothing, before the last call
OnListOrAbsent == tlast.key \in DOMAIN tlast.was => IsList(tlast.was[tlast.key])

\* the key held a dict, or nothing, before the last call
OnDictOrAbsent == tlast.key \in DOMAIN tlast.was => IsDict(tlast.was[tlast.key])

\* C12: a list.set with an item that is no list, called a second time with
\* the same key and item, leaves the cache exactly as the first call left it:
\* the key's list has the same elements in the same order, the item among them.
C12_ListSetIdempotent ==
    (tlast.op = "list_set" /\ tlast.again /\ ~IsList(tlast.val))
        => /\ tc = tlast.was
           /\ OnListOrAbsent =>
                  /\ tlast.out = "ok"
                  /\ IsList(tc[tlast.key])
                  /\ InList(tlast.val, tc[tlast.key].l)

C12_Witness ==
    /\ tlast.op = "list_set" /\ tlast.again /\ tlast.val = PyInt(1)
    /\ tlast.out = "ok"
    /\ tlast.key \in DOMAIN tc
    /\ tc[tlast.key] = PyList(<<PyInt(2), PyInt(1)>>)

\* the first position of x in l
FirstIndex(l, x) == CHOOSE i \in 1..Len(l) : l[i] = x /\ \A j \in 1..(i - 1) : l[j] # x

\* new is old followed by the elements of item that old lacks, each once, in
\* the order in which item first has them
ExtendedBy(old, new, item) ==
    /\ Len(new) >= Len(old)
    /\ SubSeq(new, 1, Len(old)) = old
    /\ \A i \in (Len(old) + 1)..Len(new) : InList(new[i], item) /\ ~InList(new[i], old)
    /\ \A i \in 1..Len(item) : InList(item[i], new)
    /\ \A i, j \in (Len(old) + 1)..Len(new) :
           i < j => FirstIndex(item, new[i]) < FirstIndex(item, new[j])

\* C13: a list.set whose item is a list, on a key that holds a list or
\* nothing, returns True and leaves the key's list equal to the list before
\* followed by the elements of the item it lacked, each once, in the order of
\* their first occurrence in the item.
C13_ListSetExtendsWithNovel ==
    (tlast.op = "list_set" /\ IsList(tlast.val) /\ OnListOrAbsent)
        => /\ tlast.out = "ok" /\ tlast.ret = PyBool(TRUE)
           /\ tlast.key \in DOMAIN tc
           /\ IsList(tc[tlast.key])
           /\ ExtendedBy(ListWas, tc[tlast.key].l, tlast.val.l)

\* the item repeats an element the list lacks: it is added once
C13_Witness ==
    /\ tlast.op = "list_set"
    /\ tlast.val = PyList(<<PyInt(2), PyInt(2)>>)
    /\ ListWas = <<PyInt(1)>>
    /\ tc[tlast.key] = PyList(<<PyInt(1), PyInt(2)>>)

\* C14: a list.delete that removes the only element of a key's list returns
\* True and removes the key, and a get of that key right after it returns its
\* default.
C14_RemovingLastDeletesKey ==
    /\ (tlast.op = "list_delete" /\ tlast.key \in DOMAIN tlast.was
            /\ tlast.was[tlast.key] = PyList(<<tlast.val>>))
           => (tlast.key \notin DOMAIN tc /\ tlast.ret = PyBool(TRUE))
    /\ (tlast.op = "get" /\ tlast.emptied)
           => (tlast.ret = tlast.val /\ tlast.ret # PyList(<<>>))

C14_Witness ==
    /\ tlast.op = "get" /\ tlast.emptied
    /\ tlast.val = PyInt(0) /\ tlast.ret = PyInt(0)

\* C15, as stated: no key of the cache maps to an empty list.
C15_NoEmptyList == \A k \in DOMAIN tc : tc[k] # PyList(<<>>)

\* what the sub key of the last dict.set held before the call, and holds now
SubWas == ItemValue(tlast.was[tlast.key].l, tlast.sub)

SubNow == ItemValue(tc[tlast.key].l, tlast.sub)

SubHeld == tlast.key \in DOMAIN tlast.was /\ HasItem(tlast.was[tlast.key].l, tlast.sub)

C17_TypeMismatchFails ==
    (\/ tlast.op \in {"list_set", "list_delete"} /\ tlast.key \in DOMAIN tlast.was
            /\ IsDict(tlast.was[tlast.key])
     \/ tlast.op \in {"dict_set", "dict_delete"} /\ tlast.key \in DOMAIN tlast.was
            /\ ~IsDict(tlast.was[tlast.key]))
        => /\ tc = tlast.was
           /\ tlast.out # "ok" \/ tlast.ret = PyBool(FALSE)

-----------------------------------------------------------------------------
(* Properties of concurrent handlers                                        *)

\* every task is past its database.set
AllStored == DOMAIN tasks = Tasks /\ \A t \in Tasks : tasks[t].pc \in {"stored", "done", "raised"}

\* C18, as stated: once two concurrent set(k, v1) and set(k, v2) are over, the
\* cache entry of k is v1 or v2.
C18_CacheHoldsOneOfTheValues ==
    AllStored =>
        \A t, u \in Tasks :
            (t # u /\ ConvertIfStr(tasks[t].key) = ConvertIfStr(tasks[u].key))
                => /\ ConvertIfStr(tasks[t].key) \in DOMAIN cache
                   /\ cache[ConvertIfStr(tasks[t].key)] \in {tasks[t].val, tasks[u].val}

\* C18, amended: once two concurrent set(k, v1) and set(k, v2) are over, the
\* cache entry of k is the value set stores for v1 or the one it stores for v2
\* (the value itself, or safe_convert of it when it is a string), whole: it is
\* the stored value of the set that ran last.
C18_CacheHoldsOneStoredValue ==
    AllStored =>
        \A t, u \in Tasks :
            (t # u /\ ConvertIfStr(tasks[t].key) = ConvertIfStr(tasks[u].key))
                => /\ ConvertIfStr(tasks[t].key) \in DOMAIN cache
                   /\ cache[ConvertIfStr(tasks[t].key)]
                          \in {ConvertIfStr(tasks[t].val), ConvertIfStr(tasks[u].val)}
                   /\ last.op = "set"
                   /\ cache[ConvertIfStr(tasks[t].key)] = ConvertIfStr(last.val)

\* both handlers are done on the same key with different values, and the
\* cache holds the value of the first task
C18_Witness ==
    /\ DOMAIN tasks = Tasks
    /\ tasks[1].pc = "done" /\ tasks[2].pc = "done"
    /\ tasks[1].key = tasks[2].key
    /\ tasks[1].val = PyStr(TxtQuoted42) /\ tasks[2].val = PyList([i \in 1..MaxListLen |-> PyInt(i)])
    /\ cache[ConvertIfStr(tasks[1].key)] = PyStr(Txt42)

-----------------------------------------------------------------------------
(* Claims on the command decorator *)

\* the ids the ADMINS value of the database lists
AdminSet(v) ==
    IF v.t \in {"list", "tuple"}
    THEN {IntOf(v.l[i]).n : i \in {j \in 1..Len(v.l) : IntOf(v.l[j]).ok}}
    ELSE {}

\* the sender the restrictions of the command allow
Authorized(h, owner, sender, admins) ==
    /\ h.owner_only => sender = owner
    /\ h.admins_only => (sender = owner \/ sender \in AdminSet(admins))

\* the wrapper went through an update and the database answered it
Handled == app.update.out \notin {"none", "DatabaseError"}

\* C19: the callback of a command runs only for the senders its restrictions
\* allow (owner_only: the owner; admins_only: the owner or an id in the ADMINS
\* value of the database at that time), and every other sender gets the
\* not-authorized reply.
C19_OthersAreRefused ==
    Handled =>
        /\ app.update.out = "callback"
               => Authorized(app.handler, app.owner, app.update.sender, app.update.admins)
        /\ ~Authorized(app.handler, app.owner, app.update.sender, app.update.admins)
               => app.update.out = "not_authorized"

\* the half of C19 that holds: no callback for a sender that is not allowed
C19_CallbackOnlyForAuthorized ==
    app.update.out = "callback"
        => Authorized(app.handler, app.owner, app.update.sender, app.update.admins)

-----------------------------------------------------------------------------
(* Claims on safe_convert *)

\* C21: safe_convert maps "42" to the int 42, "3.14" to the float 3.14,
\* "true" to True, "[1, 2]" to the list [1, 2] and "hello" to the str "hello".
C21_ConvertsTheExamples ==
    conv.called =>
        /\ conv.text = Txt42 => conv.out = PyInt(42)
        /\ conv.text = Txt314 => conv.out = PyFloat(314, 2)
        /\ conv.text = TxtTrue => conv.out = PyBool(TRUE)
        /\ conv.text = TxtList12 => conv.out = PyList(<<PyInt(1), PyInt(2)>>)
        /\ conv.text = TxtHello => conv.out = PyStr(TxtHello)

\* safe_convert answered True for the text true
C21_Witness == conv.called /\ conv.text = TxtTrue /\ conv.out = PyBool(TRUE)

\* C22: safe_convert maps every spelling of true and false, in any letter
\* case, to the boolean, and returns none of them as a string.
C22_KeywordsInEveryCase ==
    conv.called =>
        /\ conv.text \in CaseVariants(TxtTrue) => conv.out = PyBool(TRUE)
        /\ conv.text \in CaseVariants(TxtFalse) => conv.out = PyBool(FALSE)

-----------------------------------------------------------------------------
(* Claims on failed and interleaved writes *)

\* C23: a set(k, v) whose backend write fails leaves the cache as it was
\* before the call.
C23_FailedWriteLeavesCache ==
    [][(last'.op = "set" /\ last'.out # "ok") => cache' = cache]_vars

-----------------------------------------------------------------------------
(* Claims on the conversations *)

\* some conversation block is entered and not left
SomeOpen == \E c \in Contexts : convo.ctx[c] # 0

\* C24: the private-message routing handler is registered exactly while a
\* conversation is open, from the very first one after start-up on, and
\* entering and leaving conversations in any order never raises.
C24_RoutedWhileOpen ==
    /\ convo.registered <=> SomeOpen
    /\ convo.out # "KeyError"

-----------------------------------------------------------------------------
(* Claims on the exec command *)

\* C25: the exec command runs code that is_dangerous flags for the owner
\* only: for every other sender of flagged code the command ends before
\* async_exec is called.
C25_DangerousCodeOnlyForOwner ==
    /\ (ex.out = "executed" /\ is_dangerous(ex.ran)) => ex.sender = app.owner
    /\ (ex.out # "none" /\ is_dangerous(ex.cmd) /\ ex.sender # app.owner)
           => ex.out \in {"aborted", "TelegramError"} /\ ex.ran = <<>>

\* flagged code from a sender that is not the owner was turned down
C25_Witness ==
    /\ ex.out = "aborted"
    /\ is_dangerous(ex.cmd)
    /\ ex.sender # app.owner

RaceOver ==
    /\ DOMAIN tasks = Tasks
    /\ tasks[1].op = "set" /\ tasks[2].op = "get"
    /\ ConvertIfStr(tasks[1].key) = ConvertIfStr(tasks[2].key)
    /\ \A t \in Tasks : tasks[t].pc \in {"stored", "fetched", "done", "raised"}

\* C27, as stated: a get(k) that misses the cache and runs concurrently with
\* a set(k, v) never leaves the older value it fetched in the cache: once both
\* have completed, the cache entry of k, which a get(k) returns, is v.
C27_GetReturnsTheValueSet ==
    RaceOver =>
        /\ ConvertIfStr(tasks[1].key) \in DOMAIN cache
        /\ cache[ConvertIfStr(tasks[1].key)] = tasks[1].val

\* C27, amended: once both have completed, the cache entry of k, which a
\* get(k) returns, is the value set stores for v (v itself, or safe_convert
\* of it when v is a string), whatever the get fetched and whichever ran first.
C27_GetReturnsTheStoredValue ==
    RaceOver =>
        /\ ConvertIfStr(tasks[1].key) \in DOMAIN cache
        /\ cache[ConvertIfStr(tasks[1].key)] = ConvertIfStr(tasks[1].val)

\* the get missed the cache and fetched the older value 5 of the table before
\* the set ran; both are over and the cache holds the value that was set
C27_Witness ==
    /\ RaceOver
    /\ tasks[2].pc = "done" /\ tasks[2].ret = PyInt(5)
    /\ tasks[1].pc = "done" /\ tasks[1].val = PyList([i \in 1..MaxListLen |-> PyInt(i)])
    /\ cache[ConvertIfStr(tasks[1].key)] = tasks[1].val

-----------------------------------------------------------------------------
(* Claims on the encoding of the table *)

\* what get(key) returns in a state with cache c
GetNow(c, key) == BaseDatabase_get(c, backend, key, PyNone, FALSE).ret

\* C28: right after a set(k, v) that reached the table, the value get(k)
\* returns equals the value get(k) returns after a following refresh(),
\* whatever the order in which the rows come back.
C28_RoundTripPreservesValues ==
    (last.op = "set" /\ last.out = "ok" /\ ~last.mem) =>
        \A order \in Orders(DOMAIN backend) :
            GetNow(cache, last.key)
                = GetNow(BaseDatabase_refresh(cache, backend, order, FALSE).cache, last.key)

-----------------------------------------------------------------------------
(* Claims on the message handlers *)

\* C29: for a handler registered with on_message(admins_only=True), an
\* update is let through exactly when its sender is the owner or in the
\* ADMINS list the database holds at the time of the update, as for
\* on_command: added and removed admins count from then on.
C29_FilterFollowsAdmins ==
    (msg.update.out # "none" /\ msg.admins_only /\ ~msg.owner_only) =>
        (msg.update.out = "callback"
            <=> \/ msg.update.sender = app.owner
                \/ msg.update.sender \in AdminSet(msg.update.admins))

-----------------------------------------------------------------------------
(* Claims on the cache around a registration *)

\* C30: registering a command handler leaves the cached value of PREFIXES
\* as the database stores it: after on_command the cache entry still equals
\* what the row of the backend reads back as.
C30_RegistrationKeepsCachedPrefixes ==
    (/\ app.handler.out # "none"
     /\ PyStr(TxtPREFIXES) \in DOMAIN cache
     /\ TxtPREFIXES \in DOMAIN backend)
        => cache[PyStr(TxtPREFIXES)] = safe_convert(backend[TxtPREFIXES])

=============================================================================
